---------------------------- MODULE Spec2Model ----------------------------
(***************************************************************************)
(* A model of the HTTP server of src/main.cpp (class HTTPServer).          *)
(*                                                                         *)
(* Byte strings (std::string, char buffers) are sequences of one-character *)
(* strings, so that parsing and formatting are modelled byte by byte.      *)
(* The listener (start/stop) and every connection handler (handleClient)   *)
(* are threads; each action below is one step of one thread between two    *)
(* blocking calls.                                                         *)
(***************************************************************************)
EXTENDS Integers, Sequences, FiniteSets, TLC

(***************************************************************************)
(* Bounds of the model.                                                    *)
(***************************************************************************)
\* connections the accept loop may accept in one run
MaxConns == 2
\* longest raw input enumerated for the parser
MaxLen == 5
\* addRoute calls made on the route table run alone
MaxAdds == 2
\* header lines of the requests written for the parser
MaxHeaders == 3

(***************************************************************************)
(* Program constants.                                                      *)
(***************************************************************************)
\* handleClient: const int BUFFER_SIZE = 4096
BUFFER_SIZE == 4096

(***************************************************************************)
(* Characters and string literals of the source.                           *)
(***************************************************************************)
\* the terminating byte of a C string
NUL == "NUL"
CR == "\r"
LF == "\n"
CRLF == <<"\r", "\n">>

\* std::isspace in the "C" locale (vertical tab has no TLA+ escape and is in
\* no input of the model)
IsSpace(ch) == ch \in {" ", "\t", "\n", "\r", "\f"}

HttpVersion ==
    <<"H","T","T","P","/","1",".","1"," ">>
ContentTypeHdr ==
    <<"C","o","n","t","e","n","t","-","T","y","p","e",":"," ">>
ContentLengthHdr ==
    <<"C","o","n","t","e","n","t","-","L","e","n","g","t","h",":"," ">>
ConnectionClose ==
    <<"C","o","n","n","e","c","t","i","o","n",":"," ","c","l","o","s","e">>
TextHtml ==
    <<"t","e","x","t","/","h","t","m","l">>
MsgOK ==
    <<"O","K">>
MsgNotFound ==
    <<"N","o","t"," ","F","o","u","n","d">>
NotFoundHead ==
    <<"<","!","D","O","C","T","Y","P","E"," ","h","t","m","l",">","<","h","t","m","l",
      ">","<","h","e","a","d",">","<","t","i","t","l","e",">","4","0","4"," ","N","o",
      "t"," ","F","o","u","n","d","<","/","t","i","t","l","e",">","<","/","h","e","a",
      "d",">","<","b","o","d","y",">","<","h","1",">","4","0","4"," ","N","o","t"," ",
      "F","o","u","n","d","<","/","h","1",">","<","p",">","T","h","e"," ","r","e","q",
      "u","e","s","t","e","d"," ","U","R","L"," ">>
NotFoundTail ==
    <<" ","w","a","s"," ","n","o","t"," ","f","o","u","n","d"," ","o","n"," ","t","h",
      "i","s"," ","s","e","r","v","e","r",".","<","/","p",">","<","/","b","o","d","y",
      ">","<","/","h","t","m","l",">">>

(***************************************************************************)
(* String helpers (std::string::find, substr, operator<< of an integer).   *)
(***************************************************************************)
MinOf(S) == CHOOSE x \in S : \A y \in S : x <= y

\* std::string::find(ch, pos), 1-based; 0 stands for npos
FindFrom(s, ch, pos) ==
    LET I == {i \in pos..Len(s) : s[i] = ch}
    IN  IF I = {} THEN 0 ELSE MinOf(I)

DigitChar(d) == <<"0","1","2","3","4","5","6","7","8","9">>[d + 1]

\* ostream << n for a non-negative integer: its decimal digits
RECURSIVE ToDecimal(_)
ToDecimal(n) ==
    IF n < 10 THEN <<DigitChar(n)>>
    ELSE ToDecimal(n \div 10) \o <<DigitChar(n % 10)>>

\* std::map<std::string, std::string>: a function from keys to values
EmptyMap == [k \in {} |-> <<>>]
\* m[k] = v that keeps the value of a key already present (as map::insert does)
MapPut_keepsFirst(m, k, v) ==
    [x \in (DOMAIN m) \cup {k} |-> IF x \in DOMAIN m THEN m[x] ELSE v]
\* m[k] = v
MapPut(m, k, v) == [x \in (DOMAIN m) \cup {k} |-> IF x = k THEN v ELSE m[x]]

(***************************************************************************)
(* parseRequest (src/main.cpp 65-101).                                     *)
(***************************************************************************)
\* std::getline(stream, line) on a stream over s whose read position is pos:
\* ok is the stream's state afterwards (the loop conditions), eof its eofbit
GetLine(s, pos) ==
    IF pos > Len(s)
    THEN [ok |-> FALSE, line |-> <<>>, next |-> pos, eof |-> TRUE]
    ELSE LET j == FindFrom(s, LF, pos)
         IN  IF j = 0
             THEN [ok |-> TRUE, line |-> SubSeq(s, pos, Len(s)),
                   next |-> Len(s) + 1, eof |-> TRUE]
             ELSE [ok |-> TRUE, line |-> SubSeq(s, pos, j - 1),
                   next |-> j + 1, eof |-> FALSE]

\* lineStream >> token: skip white space, read up to the next white space;
\* at the end of the line the extraction fails and the token stays empty
ReadToken(s, pos) ==
    LET B == {i \in pos..Len(s) : ~IsSpace(s[i])}
        b == IF B = {} THEN Len(s) + 1 ELSE MinOf(B)
        E == {i \in b..Len(s) : IsSpace(s[i])}
        e == IF E = {} THEN Len(s) + 1 ELSE MinOf(E)
    IN  [tok |-> SubSeq(s, b, e - 1), next |-> e]

\* StripCR that leaves the value as it is
StripCR_keeps(v) == v
\* value.back() == '\r' ? value.pop_back()
StripCR(v) ==
    IF Len(v) > 0 /\ v[Len(v)] = CR THEN SubSeq(v, 1, Len(v) - 1) ELSE v

\* line.substr(colon + 2) throws std::out_of_range when colon + 2 > line.size();
\* colon is 1-based here, so that is colon + 1 > Len(line)
SubstrThrows(line, colon) == colon + 1 > Len(line)

\* the header loop (76-88): the lines up to the first line equal to "\r"
RECURSIVE ParseHeaders(_, _, _)
ParseHeaders(s, pos, hdrs) ==
    LET g == GetLine(s, pos)
    IN  IF ~g.ok \/ g.line = <<CR>>
        THEN [raised |-> FALSE, headers |-> hdrs, next |-> g.next]
        ELSE LET colon == FindFrom(g.line, ":", 1)
             IN  IF colon = 0
                 THEN ParseHeaders(s, g.next, hdrs)
                 ELSE IF SubstrThrows(g.line, colon)
                 THEN [raised |-> TRUE, headers |-> hdrs, next |-> g.next]
                 ELSE ParseHeaders(s, g.next,
                          MapPut(hdrs, SubSeq(g.line, 1, colon - 1),
                                 StripCR(SubSeq(g.line, colon + 2, Len(g.line)))))

\* the body loop (90-98): the remaining lines, '\n' after each one that did
\* not end at the end of the stream
RECURSIVE ReadBody(_, _)
ReadBody(s, pos) ==
    LET g == GetLine(s, pos)
    IN  IF ~g.ok THEN <<>>
        ELSE g.line \o (IF ~g.eof THEN <<LF>> ELSE <<>>) \o ReadBody(s, g.next)

\* a default-constructed HTTPRequest
EmptyRequest ==
    [raised |-> FALSE, method |-> <<>>, path |-> <<>>, version |-> <<>>,
     headers |-> EmptyMap, body |-> <<>>]

\* parseRequest: raised stands for the std::out_of_range that leaves it
parseRequest(request) ==
    LET g  == GetLine(request, 1)
        t1 == ReadToken(g.line, 1)
        t2 == ReadToken(g.line, t1.next)
        t3 == ReadToken(g.line, t2.next)
        h  == ParseHeaders(request, g.next, EmptyMap)
    IN  IF h.raised
        THEN [EmptyRequest EXCEPT !.raised = TRUE]
        ELSE [raised |-> FALSE, method |-> t1.tok, path |-> t2.tok,
              version |-> t3.tok, headers |-> h.headers,
              body |-> ReadBody(request, h.next)]

(***************************************************************************)
(* createResponse (src/main.cpp 104-115).                                  *)
(***************************************************************************)
ContentLengthOf_plus1(content) == Len(content) + 1
\* content.length()
ContentLengthOf(content) == Len(content)

createResponse(status_code, status_msg, content, content_type) ==
    HttpVersion \o ToDecimal(status_code) \o <<" ">> \o status_msg \o CRLF
    \o ContentTypeHdr \o content_type \o CRLF
    \o ContentLengthHdr \o ToDecimal(ContentLengthOf(content)) \o CRLF
    \o ConnectionClose \o CRLF
    \o CRLF
    \o content


(***************************************************************************)
(* Route handlers: std::function<std::string(const std::map<...>&)>.       *)
(* Handler 1 ignores the headers, as the handlers registered in main do;   *)
(* handler 2 returns the value of the Host header, so that the headers a   *)
(* handler is given show in its result.                                    *)
(***************************************************************************)
Handlers == {1, 2}
Hello ==
    <<"h","e","l","l","o">>
HostKey ==
    <<"H","o","s","t">>
Apply(h, headers) ==
    IF h = 1 THEN Hello
    ELSE IF HostKey \in DOMAIN headers THEN headers[HostKey] ELSE <<>>

(***************************************************************************)
(* The environment: the paths main may register and the bytes a client's   *)
(* single read may return.                                                 *)
(***************************************************************************)
PathRoot ==
    <<"/">>
PathAbout ==
    <<"/","a","b","o","u","t">>
RoutePaths == {PathRoot, PathAbout}

\* GET / HTTP/1.1\r\nHost: x\r\n\r\n
ReqRoot ==
    <<"G","E","T"," ","/"," ","H","T","T","P","/","1",".","1","\r","\n","H","o","s","t",
      ":"," ","x","\r","\n","\r","\n">>
\* GET /about HTTP/1.1\r\nHost: y\r\n\r\n
ReqAbout ==
    <<"G","E","T"," ","/","a","b","o","u","t"," ","H","T","T","P","/","1",".","1","\r",
      "\n","H","o","s","t",":"," ","y","\r","\n","\r","\n">>
\* GET /missing HTTP/1.1\r\n\r\n
ReqMissing ==
    <<"G","E","T"," ","/","m","i","s","s","i","n","g"," ","H","T","T","P","/","1",".",
      "1","\r","\n","\r","\n">>
\* GET / HTTP/1.1\nHost:      (bare line feeds, the read ends after the colon)
ReqColonEnd ==
    <<"G","E","T"," ","/"," ","H","T","T","P","/","1",".","1","\n","H","o","s","t",":">>
Requests == {ReqRoot, ReqAbout, ReqMissing, ReqColonEnd}

\* the raw inputs given to the parser alone: every string over ParseAlphabet
\* of at most MaxLen bytes
ParseAlphabet == {"a", ":", " ", CR, LF}
Inputs == UNION {[1..n -> ParseAlphabet] : n \in 0..MaxLen}

(***************************************************************************)
(* State.                                                                  *)
(***************************************************************************)
VARIABLES
    routes,           \* HTTPServer::routes: path -> handler
    running,          \* HTTPServer::running
    server_fd,        \* the listening socket: "none", "open" or "closed"
    server_fd_closes, \* closeSocket(server_fd) calls made so far
    lpc,              \* where the thread that runs start() is
    client_socket,    \* the loop body's local: what accept returned (0: not in scope)
    reported,         \* the lines start() wrote about its setup (178, 197, 204, 209)
    hpc,              \* per accepted socket: where its handleClient thread is
    bytes_received,   \* handleClient's local, per thread
    buffer,           \* handleClient's local request_str, per thread
    request,          \* handleClient's local, per thread
    response,         \* handleClient's local, per thread
    invoked,          \* per thread: the handler calls made, with their argument
    sent,             \* per socket: the payloads of the send calls made on it
    closes,           \* per socket: the closeSocket calls made on it
    trace,            \* per thread: the calls handleClient has made, in order
    crashed,          \* std::terminate was called: the process is gone
    stopSeen,         \* stop() was called while the accept loop was active
    acceptsAfterStop, \* accept calls that returned after such a stop()
    earlyStop,        \* where start() was at the last stop() made before it set
                      \* running ("none": no such stop(), or none recorded)
    ppc,              \* the parser run alone: "idle", "input" or "parsed"
    pin,              \* its input
    pout,             \* its result
    presp,            \* the response builder run alone: its result
    plines,           \* the header lines pin was written from, when it was
    addLog,           \* the route table run alone: the addRoute calls made
    lreq,             \* the requests looked up in it
    lres              \* and what the lookups gave

listenerVars == <<running, server_fd, server_fd_closes, lpc, client_socket,
                  reported, stopSeen, acceptsAfterStop, earlyStop>>
handlerVars == <<hpc, bytes_received, buffer, request, response, invoked, sent,
                 closes, trace, crashed>>
parserVars == <<ppc, pin, pout, presp, plines>>
tableVars == <<addLog, lreq, lres>>
pureVars == <<parserVars, tableVars>>
vars == <<routes, listenerVars, handlerVars, pureVars>>

Sockets == 1..MaxConns

\* the accept loop is active: running was set and start() has not left the loop
Listening == lpc \in {"loop", "accept"}

\* the sockets accept has returned so far
Accepted == {c \in Sockets : hpc[c] # "none"}

(***************************************************************************)
(* HTTPServer(port): running(false); nothing is registered, no socket.     *)
(***************************************************************************)
ServerInit ==
    /\ routes = EmptyMap
    /\ running = FALSE
    /\ server_fd = "none"
    /\ server_fd_closes = 0
    /\ lpc = "created"
    /\ client_socket = 0
    /\ reported = {}
    /\ hpc = [c \in Sockets |-> "none"]
    /\ bytes_received = [c \in Sockets |-> 0]
    /\ buffer = [c \in Sockets |-> <<>>]
    /\ request = [c \in Sockets |-> EmptyRequest]
    /\ response = [c \in Sockets |-> <<>>]
    /\ invoked = [c \in Sockets |-> <<>>]
    /\ sent = [c \in Sockets |-> <<>>]
    /\ closes = [c \in Sockets |-> 0]
    /\ trace = [c \in Sockets |-> <<>>]
    /\ crashed = FALSE
    /\ stopSeen = FALSE
    /\ acceptsAfterStop = 0
    /\ earlyStop = "none"

\* the functions run alone are not in use
TableIdle ==
    /\ addLog = <<>>
    /\ lreq = <<>>
    /\ lres = <<>>

ParserIdle ==
    /\ ppc = "idle"
    /\ pin = <<>>
    /\ pout = EmptyRequest
    /\ presp = <<>>
    /\ plines = <<>>

Init ==
    /\ ServerInit
    /\ ParserIdle
    /\ TableIdle

(***************************************************************************)
(* addRoute (168-171): routes[path] = handler.  main registers its routes  *)
(* before it calls start(); a registration while handlers read the map is  *)
(* not part of the model.                                                  *)
(***************************************************************************)
AddRoute(path, handler) ==
    /\ ~crashed
    /\ lpc = "created"
    /\ routes' = MapPut(routes, path, handler)
    /\ UNCHANGED <<listenerVars, handlerVars, pureVars>>

(***************************************************************************)
(* start() (174-236), one action per blocking call.                        *)
(***************************************************************************)
\* 176-180: socket(); on failure report and return
StartSocket ==
    /\ ~crashed
    /\ lpc = "created"
    /\ \/ /\ server_fd' = "open"
          /\ lpc' = "bind"
          /\ UNCHANGED reported
       \/ /\ reported' = reported \cup {"Socket creation failed"}
          /\ lpc' = "returned"
          /\ UNCHANGED server_fd
    /\ UNCHANGED <<routes, running, server_fd_closes, client_socket, stopSeen, earlyStop,
                   acceptsAfterStop, handlerVars, pureVars>>

\* StartBind without the return after a failed bind
StartBind_noReturn ==
    /\ ~crashed
    /\ lpc = "bind"
    /\ \/ /\ lpc' = "listen"
          /\ UNCHANGED <<reported, server_fd, server_fd_closes>>
       \/ /\ reported' = reported \cup {"Bind failed"}
          /\ server_fd' = "closed"
          /\ server_fd_closes' = server_fd_closes + 1
          /\ lpc' = "listen"
    /\ UNCHANGED <<routes, running, client_socket, stopSeen, earlyStop, acceptsAfterStop,
                   handlerVars, pureVars>>

\* 190-200: bind(); on failure report, close the socket and return
StartBind ==
    /\ ~crashed
    /\ lpc = "bind"
    /\ \/ /\ lpc' = "listen"
          /\ UNCHANGED <<reported, server_fd, server_fd_closes>>
       \/ /\ reported' = reported \cup {"Bind failed"}
          /\ server_fd' = "closed"
          /\ server_fd_closes' = server_fd_closes + 1
          /\ lpc' = "returned"
    /\ UNCHANGED <<routes, running, client_socket, stopSeen, earlyStop, acceptsAfterStop,
                   handlerVars, pureVars>>

\* StartListen that returns after a failed listen without closing the socket
StartListen_noClose ==
    /\ ~crashed
    /\ lpc = "listen"
    /\ \/ /\ lpc' = "run"
          /\ UNCHANGED reported
       \/ /\ reported' = reported \cup {"Listen failed"}
          /\ lpc' = "returned"
    /\ UNCHANGED <<routes, running, server_fd, server_fd_closes, client_socket, stopSeen,
                   earlyStop, acceptsAfterStop, handlerVars, pureVars>>

\* 202-207: listen(); on failure report, close the socket and return
StartListen ==
    /\ ~crashed
    /\ lpc = "listen"
    /\ \/ /\ lpc' = "run"
          /\ UNCHANGED <<reported, server_fd, server_fd_closes>>
       \/ /\ reported' = reported \cup {"Listen failed"}
          /\ server_fd' = "closed"
          /\ server_fd_closes' = server_fd_closes + 1
          /\ lpc' = "returned"
    /\ UNCHANGED <<routes, running, client_socket, stopSeen, earlyStop, acceptsAfterStop,
                   handlerVars, pureVars>>

\* SetRunning on which an earlier stop() has a lasting effect: the flag is
\* set only when stop() was not called before
SetRunning_unlessStopped ==
    /\ ~crashed
    /\ lpc = "run"
    /\ reported' = reported \cup {"Server started"}
    /\ running' = (earlyStop = "none")
    /\ lpc' = "loop"
    /\ UNCHANGED <<routes, server_fd, server_fd_closes, client_socket, stopSeen, earlyStop,
                   acceptsAfterStop, handlerVars, pureVars>>

\* 209-212: announce the port, running = true
SetRunning ==
    /\ ~crashed
    /\ lpc = "run"
    /\ reported' = reported \cup {"Server started"}
    /\ running' = TRUE
    /\ lpc' = "loop"
    /\ UNCHANGED <<routes, server_fd, server_fd_closes, client_socket, stopSeen, earlyStop,
                   acceptsAfterStop, handlerVars, pureVars>>

\* LoopCheck reached only after the handler threads were joined
LoopCheck_joined ==
    /\ ~crashed
    /\ lpc = "loop"
    /\ \A c \in Sockets : hpc[c] \in {"none", "done"}
    /\ \/ /\ running
          /\ lpc' = "accept"
          /\ UNCHANGED <<server_fd, server_fd_closes>>
       \/ /\ ~running
          /\ server_fd' = "closed"
          /\ server_fd_closes' = server_fd_closes + 1
          /\ lpc' = "returned"
    /\ client_socket' = 0
    /\ UNCHANGED <<routes, running, reported, stopSeen, earlyStop, acceptsAfterStop,
                   handlerVars, pureVars>>

\* LoopCheck that cancels the handler threads still at work when it leaves the
\* loop
LoopCheck_cancels ==
    /\ ~crashed
    /\ lpc = "loop"
    /\ \/ /\ running
          /\ lpc' = "accept"
          /\ UNCHANGED <<server_fd, server_fd_closes, hpc>>
       \/ /\ ~running
          /\ server_fd' = "closed"
          /\ server_fd_closes' = server_fd_closes + 1
          /\ lpc' = "returned"
          /\ hpc' = [c \in Sockets |-> IF hpc[c] = "none" THEN "none" ELSE "done"]
    /\ client_socket' = 0
    /\ UNCHANGED <<routes, running, reported, stopSeen, earlyStop, acceptsAfterStop,
                   bytes_received, buffer, request, response, invoked, sent, closes,
                   trace, crashed, pureVars>>

\* 215, 235: while (running): enter accept, or leave the loop, close the
\* listening socket and return.  client_socket is local to the loop body: the
\* iteration that set it has ended
LoopCheck ==
    /\ ~crashed
    /\ lpc = "loop"
    /\ \/ /\ running
          /\ lpc' = "accept"
          /\ UNCHANGED <<server_fd, server_fd_closes>>
       \/ /\ ~running
          /\ server_fd' = "closed"
          /\ server_fd_closes' = server_fd_closes + 1
          /\ lpc' = "returned"
    /\ client_socket' = 0
    /\ UNCHANGED <<routes, running, reported, stopSeen, earlyStop, acceptsAfterStop,
                   handlerVars, pureVars>>

\* 223, 230-232: accept returns a new socket; a detached thread is started on
\* handleClient for it and the loop goes on
AcceptOk ==
    /\ ~crashed
    /\ lpc = "accept"
    /\ Accepted # Sockets
    /\ LET c == MinOf(Sockets \ Accepted)
       IN  /\ client_socket' = c
           /\ hpc' = [hpc EXCEPT ![c] = "recv"]
    /\ acceptsAfterStop' = acceptsAfterStop + (IF stopSeen THEN 1 ELSE 0)
    /\ lpc' = "loop"
    /\ UNCHANGED <<routes, running, server_fd, server_fd_closes, reported, stopSeen, earlyStop,
                   bytes_received, buffer, request, response, invoked, sent, closes,
                   trace, crashed, pureVars>>

\* AcceptFail that calls accept again without looking at the flag
AcceptFail_retries ==
    /\ ~crashed
    /\ lpc = "accept"
    /\ client_socket' = -1
    /\ acceptsAfterStop' = acceptsAfterStop + (IF stopSeen THEN 1 ELSE 0)
    /\ lpc' = "accept"
    /\ UNCHANGED <<routes, running, server_fd, server_fd_closes, reported, stopSeen, earlyStop,
                   handlerVars, pureVars>>

\* AcceptFail that leaves the loop (break) and closes the listening socket
AcceptFail_breaks ==
    /\ ~crashed
    /\ lpc = "accept"
    /\ client_socket' = -1
    /\ acceptsAfterStop' = acceptsAfterStop + (IF stopSeen THEN 1 ELSE 0)
    /\ server_fd' = "closed"
    /\ server_fd_closes' = server_fd_closes + 1
    /\ lpc' = "returned"
    /\ UNCHANGED <<routes, running, reported, stopSeen, earlyStop, handlerVars, pureVars>>

\* 223-228: accept fails (client_socket < 0); report and continue.  The
\* "Accept failed" line is not kept in reported: client_socket records it
AcceptFail ==
    /\ ~crashed
    /\ lpc = "accept"
    /\ client_socket' = -1
    /\ acceptsAfterStop' = acceptsAfterStop + (IF stopSeen THEN 1 ELSE 0)
    /\ lpc' = "loop"
    /\ UNCHANGED <<routes, running, server_fd, server_fd_closes, reported, stopSeen, earlyStop,
                   handlerVars, pureVars>>

\* start() has not set running yet
BeforeRunning == lpc \in {"created", "bind", "listen", "run"}

\* Stop, with a call made before start() set running recorded in earlyStop
StopLogged ==
    /\ ~crashed
    /\ running' = FALSE
    /\ stopSeen' = (stopSeen \/ Listening)
    /\ earlyStop' = IF BeforeRunning THEN lpc ELSE earlyStop
    /\ UNCHANGED <<routes, server_fd, server_fd_closes, lpc, client_socket, reported,
                   acceptsAfterStop, handlerVars, pureVars>>

\* stop() (239-241), called by any other thread at any time.  running is a
\* plain bool: the store is one step, and the loop, which loads the flag anew
\* after each accept call, reads the last value stored
Stop ==
    /\ ~crashed
    /\ running' = FALSE
    /\ stopSeen' = (stopSeen \/ Listening)
    /\ UNCHANGED <<routes, server_fd, server_fd_closes, lpc, client_socket, reported,
                   acceptsAfterStop, earlyStop, handlerVars, pureVars>>

(***************************************************************************)
(* handleClient(client_socket) (118-155), one thread per accepted socket.  *)
(***************************************************************************)
\* std::string request_str(buffer): the bytes before the first NUL
CStr(buf) ==
    LET z == FindFrom(buf, NUL, 1)
    IN  IF z = 0 THEN buf ELSE SubSeq(buf, 1, z - 1)

\* HRecv without the test of bytes_received: a read of zero or fewer bytes is
\* processed as an empty request
HRecv_noCheck(c) ==
    /\ ~crashed
    /\ hpc[c] = "recv"
    /\ \/ \E data \in Requests :
            LET got == SubSeq(data, 1, IF Len(data) < BUFFER_SIZE - 1
                                       THEN Len(data) ELSE BUFFER_SIZE - 1)
            IN  /\ bytes_received' = [bytes_received EXCEPT ![c] = Len(got)]
                /\ buffer' = [buffer EXCEPT ![c] = CStr(got)]
       \/ \E n \in {0, -1} :
            /\ bytes_received' = [bytes_received EXCEPT ![c] = n]
            /\ UNCHANGED buffer
    /\ hpc' = [hpc EXCEPT ![c] = "process"]
    /\ trace' = [trace EXCEPT ![c] = Append(@, "recv")]
    /\ UNCHANGED <<routes, listenerVars, request, response, invoked, sent, closes,
                   crashed, pureVars>>

\* 123-126: the single recv returns; at most BUFFER_SIZE - 1 bytes are taken
HRecv(c) ==
    /\ ~crashed
    /\ hpc[c] = "recv"
    /\ \/ \E data \in Requests :
            LET got == SubSeq(data, 1, IF Len(data) < BUFFER_SIZE - 1
                                       THEN Len(data) ELSE BUFFER_SIZE - 1)
            IN  /\ bytes_received' = [bytes_received EXCEPT ![c] = Len(got)]
                /\ buffer' = [buffer EXCEPT ![c] = CStr(got)]
                /\ hpc' = [hpc EXCEPT ![c] = "process"]
       \/ \E n \in {0, -1} :
            /\ bytes_received' = [bytes_received EXCEPT ![c] = n]
            /\ hpc' = [hpc EXCEPT ![c] = "close"]
            /\ UNCHANGED buffer
    /\ trace' = [trace EXCEPT ![c] = Append(@, "recv")]
    /\ UNCHANGED <<routes, listenerVars, request, response, invoked, sent, closes,
                   crashed, pureVars>>

\* Route with status_code and status_msg left at their 404 defaults
Route_keeps404(table, req) ==
    IF req.path \in DOMAIN table
    THEN [status_code |-> 404, status_msg |-> MsgNotFound,
          content |-> Apply(table[req.path], req.headers),
          calls |-> <<[handler |-> table[req.path], headers |-> req.headers]>>]
    ELSE [status_code |-> 404, status_msg |-> MsgNotFound,
          content |-> NotFoundHead \o req.path \o NotFoundTail,
          calls |-> <<>>]

\* Route with a 404 page that does not name the path
Route_noPath(table, req) ==
    IF req.path \in DOMAIN table
    THEN [status_code |-> 200, status_msg |-> MsgOK,
          content |-> Apply(table[req.path], req.headers),
          calls |-> <<[handler |-> table[req.path], headers |-> req.headers]>>]
    ELSE [status_code |-> 404, status_msg |-> MsgNotFound,
          content |-> NotFoundHead \o NotFoundTail,
          calls |-> <<>>]

\* Route that serves a registered path to GET requests only
Route_getOnly(table, req) ==
    IF req.path \in DOMAIN table /\ req.method = <<"G","E","T">>
    THEN [status_code |-> 200, status_msg |-> MsgOK,
          content |-> Apply(table[req.path], req.headers),
          calls |-> <<[handler |-> table[req.path], headers |-> req.headers]>>]
    ELSE [status_code |-> 404, status_msg |-> MsgNotFound,
          content |-> NotFoundHead \o req.path \o NotFoundTail,
          calls |-> <<>>]

\* 137-147: the route lookup; the status, the content and the handler called
Route(table, req) ==
    IF req.path \in DOMAIN table
    THEN [status_code |-> 200, status_msg |-> MsgOK,
          content |-> Apply(table[req.path], req.headers),
          calls |-> <<[handler |-> table[req.path], headers |-> req.headers]>>]
    ELSE [status_code |-> 404, status_msg |-> MsgNotFound,
          content |-> NotFoundHead \o req.path \o NotFoundTail,
          calls |-> <<>>]

\* HProcess that looks the path up with routes[request.path] alone, without the
\* find before it: operator[] enters a missing path with an empty handler
HProcess_inserts(c) ==
    /\ ~crashed
    /\ hpc[c] = "process"
    /\ LET req == parseRequest(buffer[c])
           r   == Route(routes, req)
       IN  IF req.raised
           THEN /\ crashed' = TRUE
                /\ hpc' = [hpc EXCEPT ![c] = "terminated"]
                /\ trace' = [trace EXCEPT ![c] = Append(@, "parseRequest")]
                /\ UNCHANGED <<routes, request, response, invoked>>
           ELSE /\ request' = [request EXCEPT ![c] = req]
                /\ routes' = IF req.path \in DOMAIN routes THEN routes
                             ELSE MapPut(routes, req.path, 0)
                /\ invoked' = [invoked EXCEPT ![c] = r.calls]
                /\ response' = [response EXCEPT ![c] =
                       createResponse(r.status_code, r.status_msg, r.content, TextHtml)]
                /\ trace' = [trace EXCEPT ![c] =
                       @ \o <<"parseRequest", "routes.find">>
                         \o [i \in 1..Len(r.calls) |-> "handler"]
                         \o <<"createResponse">>]
                /\ hpc' = [hpc EXCEPT ![c] = "send"]
                /\ UNCHANGED crashed
    /\ UNCHANGED <<listenerVars, bytes_received, buffer, sent, closes, pureVars>>

\* 128-150: parse, look the route up, build the response.  An exception that
\* leaves parseRequest leaves the thread function too: std::terminate ends
\* the process
HProcess(c) ==
    /\ ~crashed
    /\ hpc[c] = "process"
    /\ LET req == parseRequest(buffer[c])
           r   == Route(routes, req)
       IN  IF req.raised
           THEN /\ crashed' = TRUE
                /\ hpc' = [hpc EXCEPT ![c] = "terminated"]
                /\ trace' = [trace EXCEPT ![c] = Append(@, "parseRequest")]
                /\ UNCHANGED <<request, response, invoked>>
           ELSE /\ request' = [request EXCEPT ![c] = req]
                /\ invoked' = [invoked EXCEPT ![c] = r.calls]
                /\ response' = [response EXCEPT ![c] =
                       createResponse(r.status_code, r.status_msg, r.content, TextHtml)]
                /\ trace' = [trace EXCEPT ![c] =
                       @ \o <<"parseRequest", "routes.find">>
                         \o [i \in 1..Len(r.calls) |-> "handler"]
                         \o <<"createResponse">>]
                /\ hpc' = [hpc EXCEPT ![c] = "send"]
                /\ UNCHANGED crashed
    /\ UNCHANGED <<routes, listenerVars, bytes_received, buffer, sent, closes,
                   pureVars>>

\* HSend on the socket the accept loop accepted last instead of the thread's own
HSend_lastAccepted(c) ==
    /\ ~crashed
    /\ hpc[c] = "send"
    /\ LET to == IF client_socket \in Sockets THEN client_socket ELSE c
       IN  sent' = [sent EXCEPT ![to] = Append(@, response[c])]
    /\ hpc' = [hpc EXCEPT ![c] = "close"]
    /\ trace' = [trace EXCEPT ![c] = Append(@, "send")]
    /\ UNCHANGED <<routes, listenerVars, bytes_received, buffer, request, response,
                   invoked, closes, crashed, pureVars>>

\* HSend that calls send a second time, as a retry after a short write would
HSend_twice(c) ==
    /\ ~crashed
    /\ hpc[c] = "send"
    /\ sent' = [sent EXCEPT ![c] = Append(Append(@, response[c]), response[c])]
    /\ hpc' = [hpc EXCEPT ![c] = "close"]
    /\ trace' = [trace EXCEPT ![c] = @ \o <<"send", "send">>]
    /\ UNCHANGED <<routes, listenerVars, bytes_received, buffer, request, response,
                   invoked, closes, crashed, pureVars>>

\* 151: send(client_socket, response.c_str(), response.length(), 0)
HSend(c) ==
    /\ ~crashed
    /\ hpc[c] = "send"
    /\ sent' = [sent EXCEPT ![c] = Append(@, response[c])]
    /\ hpc' = [hpc EXCEPT ![c] = "close"]
    /\ trace' = [trace EXCEPT ![c] = Append(@, "send")]
    /\ UNCHANGED <<routes, listenerVars, bytes_received, buffer, request, response,
                   invoked, closes, crashed, pureVars>>

\* 154-155: closeSocket(client_socket); the thread and its locals end
HClose(c) ==
    /\ ~crashed
    /\ hpc[c] = "close"
    /\ closes' = [closes EXCEPT ![c] = @ + 1]
    /\ hpc' = [hpc EXCEPT ![c] = "done"]
    /\ trace' = [trace EXCEPT ![c] = Append(@, "close")]
    /\ UNCHANGED <<routes, listenerVars, bytes_received, buffer, request, response,
                   invoked, sent, crashed, pureVars>>

(***************************************************************************)
(* The server: main's registrations, start(), stop() and the handlers.     *)
(***************************************************************************)
Next ==
    \/ \E path \in RoutePaths, handler \in Handlers : AddRoute(path, handler)
    \/ StartSocket
    \/ StartBind
    \/ StartListen
    \/ SetRunning
    \/ LoopCheck
    \/ AcceptOk
    \/ AcceptFail
    \/ Stop
    \/ \E c \in Sockets : HRecv(c)
    \/ \E c \in Sockets : HProcess(c)
    \/ \E c \in Sockets : HSend(c)
    \/ \E c \in Sockets : HClose(c)

Spec == Init /\ [][Next]_vars

(***************************************************************************)
(* The listener with the early stop() calls recorded: start(), stop() and  *)
(* the handlers of a server on which no route is registered.               *)
(***************************************************************************)
ListenerNext ==
    \/ StartSocket
    \/ StartBind
    \/ StartListen
    \/ SetRunning
    \/ LoopCheck
    \/ AcceptOk
    \/ AcceptFail
    \/ StopLogged
    \/ \E c \in Sockets : HRecv(c)
    \/ \E c \in Sockets : HProcess(c)
    \/ \E c \in Sockets : HSend(c)
    \/ \E c \in Sockets : HClose(c)

ListenerSpec == Init /\ [][ListenerNext]_vars

(***************************************************************************)
(* The parser and the response builder alone, as pure functions, on every  *)
(* input of Inputs and on the longer strings of LongInputs.                *)
(***************************************************************************)
LongInputs ==
    Requests \cup {NotFoundHead, NotFoundHead \o PathAbout \o NotFoundTail,
                   Hello \o Hello, CRLF \o CRLF \o ContentLengthHdr \o <<"7">> \o CRLF \o CRLF}

PureInit ==
    /\ ServerInit
    /\ ppc = "input"
    /\ pin \in Inputs \cup LongInputs
    /\ pout = EmptyRequest
    /\ presp = <<>>
    /\ plines = <<>>
    /\ TableIdle

\* parseRequest(pin)
PParse ==
    /\ ppc = "input"
    /\ pout' = parseRequest(pin)
    /\ ppc' = "parsed"
    /\ UNCHANGED <<routes, listenerVars, handlerVars, pin, presp, plines, tableVars>>

\* createResponse(status_code, status_msg, pin, "text/html"), with the two
\* status lines handleClient uses
PBuild ==
    /\ ppc = "input"
    /\ \E st \in {<<200, MsgOK>>, <<404, MsgNotFound>>} :
           presp' = createResponse(st[1], st[2], pin, TextHtml)
    /\ ppc' = "built"
    /\ UNCHANGED <<routes, listenerVars, handlerVars, pin, pout, plines, tableVars>>

PureNext == PParse \/ PBuild

PureSpec == PureInit /\ [][PureNext]_vars

(***************************************************************************)
(* The route table alone: up to MaxAdds addRoute calls on an empty table,  *)
(* then the lookup handleClient makes, for two requests at a time.         *)
(***************************************************************************)
PathAboutSlash ==
    <<"/","a","b","o","u","t","/">>
PathAboutUpper ==
    <<"/","A","b","o","u","t">>
TablePaths == {PathRoot, PathAbout, PathAboutSlash, PathAboutUpper}

\* POST /about HTTP/1.0\r\nHost: y\r\n\r\nbody
ReqAboutPost ==
    <<"P","O","S","T"," ","/","a","b","o","u","t"," ","H","T","T","P","/","1",".","0",
      "\r","\n","H","o","s","t",":"," ","y","\r","\n","\r","\n","b","o","d","y">>
\* PUT /about HTTP/1.1\r\nHost: z\r\n\r\n
ReqAboutPut ==
    <<"P","U","T"," ","/","a","b","o","u","t"," ","H","T","T","P","/","1",".","1","\r",
      "\n","H","o","s","t",":"," ","z","\r","\n","\r","\n">>
\* GET /about/ HTTP/1.1\r\n\r\n
ReqAboutSlash ==
    <<"G","E","T"," ","/","a","b","o","u","t","/"," ","H","T","T","P","/","1",".","1",
      "\r","\n","\r","\n">>
\* GET /About HTTP/1.1\r\n\r\n
ReqAboutUpper ==
    <<"G","E","T"," ","/","A","b","o","u","t"," ","H","T","T","P","/","1",".","1","\r",
      "\n","\r","\n">>
LookupInputs ==
    {ReqRoot, ReqAbout, ReqAboutPost, ReqAboutPut, ReqAboutSlash, ReqAboutUpper,
     ReqMissing}

TableInit ==
    /\ ServerInit
    /\ ParserIdle
    /\ TableIdle

\* addRoute (168-171), with the call kept in addLog
TAddRoute(path, handler) ==
    /\ Len(addLog) < MaxAdds
    /\ lres = <<>>
    /\ routes' = MapPut(routes, path, handler)
    /\ addLog' = Append(addLog, <<path, handler>>)
    /\ UNCHANGED <<listenerVars, handlerVars, parserVars, lreq, lres>>

\* 129-147 for two reads: each is parsed and its path looked up
TLookup(b1, b2) ==
    /\ lres = <<>>
    /\ LET r1 == parseRequest(b1)
           r2 == parseRequest(b2)
       IN  /\ lreq' = <<r1, r2>>
           /\ lres' = <<Route(routes, r1), Route(routes, r2)>>
    /\ UNCHANGED <<routes, listenerVars, handlerVars, parserVars, addLog>>

TableNext ==
    \/ \E path \in TablePaths, handler \in Handlers : TAddRoute(path, handler)
    \/ \E b1, b2 \in LookupInputs : TLookup(b1, b2)

TableSpec == TableInit /\ [][TableNext]_vars

(***************************************************************************)
(* The parser on requests a client writes line by line: a request line, up *)
(* to MaxHeaders lines that are "Key: Value" or text without a colon, each *)
(* ended by CR LF, the blank line, and a body.                             *)
(***************************************************************************)
HeaderKeys == {<<"K">>, <<"k">>}
HeaderValues == {<<>>, <<"v">>, <<"a",":"," ","b">>}
HeaderLines ==
    [kind : {"kv"}, key : HeaderKeys, value : HeaderValues]
    \cup {[kind |-> "text", key |-> <<>>, value |-> <<"j","u","n","k">>]}
HeaderLineSeqs == UNION {[1..n -> HeaderLines] : n \in 0..MaxHeaders}
\* no body, and a body that reads like a header line
HeaderBodies == {<<>>, <<"K",":"," ","b","o","d","y","\r","\n">>}

WriteLine(l) ==
    IF l.kind = "kv" THEN l.key \o <<":", " ">> \o l.value \o CRLF
    ELSE l.value \o CRLF

RECURSIVE WriteLines(_)
WriteLines(ls) ==
    IF ls = <<>> THEN <<>> ELSE WriteLine(Head(ls)) \o WriteLines(Tail(ls))

\* GET / HTTP/1.1, the lines, the blank line, the body
WriteRequest(ls, body) ==
    SubSeq(ReqRoot, 1, 16) \o WriteLines(ls) \o CRLF \o body

HeaderInit ==
    /\ ServerInit
    /\ TableIdle
    /\ ppc = "input"
    /\ plines \in HeaderLineSeqs
    /\ \E body \in HeaderBodies : pin = WriteRequest(plines, body)
    /\ pout = EmptyRequest
    /\ presp = <<>>

HeaderNext == PParse

HeaderSpec == HeaderInit /\ [][HeaderNext]_vars

(***************************************************************************)
(* The parser as handleClient calls it (123-129): on the C string made of  *)
(* the bytes the read returned.  The bytes may be any, NUL included.       *)
(***************************************************************************)
ReadAlphabet == {"b", NUL, CR, LF}
\* POST / HTTP/1.1\r\n\r\nab NUL cd
ReqPostNul ==
    <<"P","O","S","T"," ","/"," ","H","T","T","P","/","1",".","1","\r","\n","\r","\n",
      "a","b",NUL,"c","d">>
ReadInputs ==
    UNION {[1..n -> ReadAlphabet] : n \in 1..MaxLen} \cup {ReqAboutPost, ReqPostNul}

ReadInit ==
    /\ ServerInit
    /\ TableIdle
    /\ ppc = "input"
    /\ pin \in ReadInputs
    /\ pout = EmptyRequest
    /\ presp = <<>>
    /\ plines = <<>>

\* 123-129: recv returned pin (bytes_received > 0); request_str(buffer);
\* parseRequest(request_str)
PRead ==
    /\ ppc = "input"
    /\ Len(pin) > 0
    /\ LET got == SubSeq(pin, 1, IF Len(pin) < BUFFER_SIZE - 1
                                 THEN Len(pin) ELSE BUFFER_SIZE - 1)
       IN  pout' = parseRequest(CStr(got))
    /\ ppc' = "read"
    /\ UNCHANGED <<routes, listenerVars, handlerVars, pin, presp, plines, tableVars>>

ReadNext == PRead

ReadSpec == ReadInit /\ [][ReadNext]_vars

(***************************************************************************)
(* What a client reads off a response: the status line, the value of a     *)
(* header and the body after the blank line.                               *)
(***************************************************************************)
\* the first index at which sub occurs in s, 0 when it does not
FindSub(s, sub) ==
    LET I == {i \in 1..(Len(s) - Len(sub) + 1) : SubSeq(s, i, i + Len(sub) - 1) = sub}
    IN  IF I = {} THEN 0 ELSE MinOf(I)

Contains(s, sub) == FindSub(s, sub) # 0

\* the bytes before the first CRLF
StatusLineOf(resp) == SubSeq(resp, 1, FindSub(resp, CRLF) - 1)

\* the header section: the bytes up to the CRLF CRLF that ends it
HeadOf(resp) == SubSeq(resp, 1, FindSub(resp, CRLF \o CRLF) + 1)

\* the bytes after the first blank line
BodyOf(resp) == SubSeq(resp, FindSub(resp, CRLF \o CRLF) + 4, Len(resp))

\* the value of the header line that starts with name, up to its CRLF
HeaderValueOf(resp, name) ==
    LET head == HeadOf(resp)
        at   == FindSub(head, CRLF \o name)
        rest == SubSeq(head, at + 2 + Len(name), Len(head))
    IN  SubSeq(rest, 1, FindSub(rest, CRLF) - 1)

DigitValue(ch) ==
    CHOOSE d \in 0..9 : DigitChar(d) = ch

RECURSIVE FromDecimal(_)
FromDecimal(ds) ==
    IF Len(ds) = 0 THEN 0
    ELSE 10 * FromDecimal(SubSeq(ds, 1, Len(ds) - 1)) + DigitValue(ds[Len(ds)])

IsDecimal(ds) ==
    /\ Len(ds) > 0
    /\ \A i \in 1..Len(ds) : \E d \in 0..9 : DigitChar(d) = ds[i]

StatusLine200 ==
    <<"H","T","T","P","/","1",".","1"," ","2","0","0"," ","O","K">>
StatusLine404 ==
    <<"H","T","T","P","/","1",".","1"," ","4","0","4"," ","N","o","t"," ","F","o","u",
      "n","d">>

\* the handler thread of socket c has made its send call
HasSent(c) == hpc[c] \in {"close", "done"} /\ bytes_received[c] > 0

(***************************************************************************)
(* C1: when the request read on a connection parses to a path P that is    *)
(* registered with handler H, the one response sent on that connection has *)
(* the status line "HTTP/1.1 200 OK" and the body H(request.headers).      *)
(***************************************************************************)
C1_RegisteredPathGets200 ==
    \A c \in Sockets :
        (HasSent(c) /\ request[c].path \in DOMAIN routes) =>
            /\ Len(sent[c]) = 1
            /\ StatusLineOf(sent[c][1]) = StatusLine200
            /\ BodyOf(sent[c][1]) = Apply(routes[request[c].path], request[c].headers)

\* a request for /about was answered by the handler that echoes the Host header
C1_Witness ==
    \E c \in Sockets :
        /\ hpc[c] = "close"
        /\ request[c].path = PathAbout
        /\ PathAbout \in DOMAIN routes
        /\ routes[PathAbout] = 2
        /\ BodyOf(sent[c][1]) = <<"y">>

(***************************************************************************)
(* C2: when the request read on a connection parses to a path P that is    *)
(* not a key of the route table, the response sent has the status line     *)
(* "HTTP/1.1 404 Not Found", its body contains P, and no handler was       *)
(* called for the connection.                                              *)
(***************************************************************************)
C2_UnregisteredPathGets404 ==
    \A c \in Sockets :
        (HasSent(c) /\ request[c].path \notin DOMAIN routes) =>
            /\ Len(sent[c]) = 1
            /\ StatusLineOf(sent[c][1]) = StatusLine404
            /\ Contains(BodyOf(sent[c][1]), request[c].path)
            /\ invoked[c] = <<>>

\* /about was requested from a server that registered only /
C2_Witness ==
    \E c \in Sockets :
        /\ hpc[c] = "close"
        /\ request[c].path = PathAbout
        /\ DOMAIN routes = {PathRoot}
        /\ Len(sent[c]) = 1

(***************************************************************************)
(* C3: in every response createResponse builds, the Content-Length header  *)
(* is the decimal byte length of the body that follows the blank line.     *)
(***************************************************************************)
C3_ContentLengthIsBodyLength ==
    ppc = "built" =>
        /\ BodyOf(presp) = pin
        /\ IsDecimal(HeaderValueOf(presp, ContentLengthHdr))
        /\ FromDecimal(HeaderValueOf(presp, ContentLengthHdr)) = Len(BodyOf(presp))

\* a 404 response whose body, of two-digit length, itself holds a blank line
C3_Witness ==
    /\ ppc = "built"
    /\ StatusLineOf(presp) = StatusLine404
    /\ Len(BodyOf(presp)) > 9
    /\ Contains(BodyOf(presp), CRLF \o CRLF)

(***************************************************************************)
(* C4: a handler thread that has ended has closed its socket exactly once, *)
(* whichever way it went: after a 200, after a 404, after a read of zero   *)
(* or fewer bytes, or by an exception.                                     *)
(***************************************************************************)
C4_ClosedOnEveryPath ==
    \A c \in Sockets :
        /\ closes[c] <= 1
        /\ hpc[c] \in {"done", "terminated"} => closes[c] = 1

(***************************************************************************)
(* C5: parseRequest raises nothing, whatever its input.                    *)
(***************************************************************************)
C5_ParseNeverRaises ==
    ppc = "parsed" => ~pout.raised

(***************************************************************************)
(* C6: of two connections that asked for different registered paths, each  *)
(* has on its socket exactly the one response computed from the bytes read *)
(* on it, and a socket whose handler has not sent yet has nothing on it.   *)
(***************************************************************************)
\* the 200 response to the bytes read on socket c alone
OwnResponse(c) ==
    LET req == parseRequest(buffer[c])
    IN  createResponse(200, MsgOK, Apply(routes[req.path], req.headers), TextHtml)

C6_NoCrossTalk ==
    /\ \A c \in Sockets : ~HasSent(c) => sent[c] = <<>>
    /\ \A c1, c2 \in Sockets :
           ( /\ c1 # c2
             /\ HasSent(c1)
             /\ HasSent(c2)
             /\ request[c1].path \in DOMAIN routes
             /\ request[c2].path \in DOMAIN routes
             /\ request[c1].path # request[c2].path ) =>
               /\ sent[c1] = <<OwnResponse(c1)>>
               /\ sent[c2] = <<OwnResponse(c2)>>

\* two handlers in flight at once, both past their send and neither closed,
\* whose requests went to different handlers and got different bodies
C6_Witness ==
    \E c1, c2 \in Sockets :
        /\ hpc[c1] = "close" /\ hpc[c2] = "close"
        /\ request[c1].path = PathRoot /\ request[c2].path = PathAbout
        /\ DOMAIN routes = {PathRoot, PathAbout}
        /\ routes[PathRoot] = 2 /\ routes[PathAbout] = 2
        /\ BodyOf(sent[c1][1]) = <<"x">>
        /\ BodyOf(sent[c2][1]) = <<"y">>

(***************************************************************************)
(* C7: while the accept loop is active it never waits for a handler: in    *)
(* whatever state the handler threads are, the loop's next step (the check *)
(* of the flag, the return of accept with a further connection) can be     *)
(* taken.                                                                  *)
(***************************************************************************)
C7_AcceptLoopNeverWaits ==
    /\ (~crashed /\ lpc = "loop") => ENABLED LoopCheck
    /\ (~crashed /\ lpc = "accept" /\ Accepted # Sockets) => ENABLED AcceptOk

\* the loop is in accept again while every handler started so far is still
\* blocked in its read
C7_Witness ==
    /\ lpc = "accept"
    /\ Cardinality(Accepted) >= 2
    /\ \A c \in Accepted : hpc[c] = "recv"

(***************************************************************************)
(* C8: after a stop() during the accept loop at most one accept call       *)
(* returns; at the loop's next check the flag is clear, and once start()   *)
(* has returned the listening socket is closed and no accept can return.   *)
(***************************************************************************)
C8_StopSeenAtNextIteration ==
    /\ acceptsAfterStop <= 1
    /\ (stopSeen /\ lpc = "loop") => ~running
    /\ (stopSeen /\ lpc = "accept") => acceptsAfterStop = 0
    /\ (stopSeen /\ lpc = "returned") => server_fd = "closed"
    /\ lpc = "returned" => (~ENABLED AcceptOk /\ ~ENABLED AcceptFail)

\* stop() came while accept was pending; that accept returned a connection,
\* and then the loop ended
C8_Witness ==
    /\ stopSeen
    /\ acceptsAfterStop = 1
    /\ lpc = "returned"
    /\ server_fd = "closed"
    /\ Accepted # {}

(***************************************************************************)
(* C9: after a failed socket(), bind() or listen() start() has returned:   *)
(* the flag is not set and cannot be set any more, the loop was not        *)
(* entered, no accept can return and no handler exists.                    *)
(***************************************************************************)
SetupFailures == {"Socket creation failed", "Bind failed", "Listen failed"}

C9_SetupFailureIsFatal ==
    (reported \cap SetupFailures # {}) =>
        /\ lpc = "returned"
        /\ ~running
        /\ "Server started" \notin reported
        /\ Accepted = {}
        /\ server_fd # "open"
        /\ ~ENABLED SetRunning
        /\ ~ENABLED AcceptOk
        /\ ~ENABLED AcceptFail

\* bind failed on a server with routes registered
C9_Witness ==
    /\ "Bind failed" \in reported
    /\ lpc = "returned"
    /\ routes # EmptyMap

(***************************************************************************)
(* C10: a step in which accept returns a failure starts no handler, leaves *)
(* the listening socket open and the flag as it is, and takes the loop     *)
(* back to its check; from the check, with the flag set, the loop can only *)
(* go on to accept.                                                        *)
(***************************************************************************)
C10_AcceptFailureNotFatal ==
    [][ /\ (lpc = "accept" /\ lpc' # "accept" /\ client_socket' = -1) =>
            /\ hpc' = hpc
            /\ server_fd' = "open"
            /\ running' = running
            /\ lpc' = "loop"
        /\ (lpc = "loop" /\ client_socket = -1 /\ running /\ lpc' # "loop") =>
            lpc' = "accept" ]_vars

\* accept has just failed after an earlier connection was accepted: the loop
\* is back at its check, the socket open and the flag set
C10_Witness ==
    /\ lpc = "loop"
    /\ client_socket = -1
    /\ server_fd = "open"
    /\ running
    /\ Accepted # {}

(***************************************************************************)
(* The calls of a handler thread, read off its trace.                      *)
(***************************************************************************)
\* how often x occurs in the sequence seq
Count(seq, x) == Cardinality({i \in DOMAIN seq : seq[i] = x})

IsPrefix(a, b) == Len(a) <= Len(b) /\ a = SubSeq(b, 1, Len(a))

\* handleClient's paths in full: a read of nothing, a 404, a 200
LinearRuns ==
    { <<"recv", "close">>,
      <<"recv", "parseRequest", "routes.find", "createResponse", "send", "close">>,
      <<"recv", "parseRequest", "routes.find", "handler", "createResponse", "send",
        "close">> }

(***************************************************************************)
(* C11: a handler whose read returned zero or fewer bytes goes from the    *)
(* read to the close: it has not parsed, not looked a route up, called no  *)
(* handler, built no response and sent nothing; and no handler parses or   *)
(* sends without having read at least one byte.                            *)
(***************************************************************************)
C11_EmptyReadGoesToClose ==
    \A c \in Sockets :
        /\ (hpc[c] \in {"close", "done"} /\ bytes_received[c] <= 0) =>
               /\ IsPrefix(trace[c], <<"recv", "close">>)
               /\ request[c] = EmptyRequest
               /\ invoked[c] = <<>>
               /\ response[c] = <<>>
               /\ sent[c] = <<>>
        /\ hpc[c] \in {"process", "send"} => bytes_received[c] > 0

\* one connection whose read failed is closed, another whose read returned
\* nothing is about to be, while the server has routes
C11_Witness ==
    \E c1, c2 \in Sockets :
        /\ hpc[c1] = "done" /\ bytes_received[c1] = -1 /\ closes[c1] = 1
        /\ hpc[c2] = "close" /\ bytes_received[c2] = 0 /\ closes[c2] = 0
        /\ routes # EmptyMap

(***************************************************************************)
(* C12: the calls of a handler thread are a prefix of one of handleClient's *)
(* linear paths: once the read has returned there is exactly one recv, at  *)
(* most one parse and at most one send, the sends on the socket are the    *)
(* thread's own, and a thread that has closed takes no further step.       *)
(***************************************************************************)
C12_LinearOnePass ==
    \A c \in Sockets :
        /\ \E run \in LinearRuns : IsPrefix(trace[c], run)
        /\ hpc[c] \notin {"none", "recv"} => Count(trace[c], "recv") = 1
        /\ Count(trace[c], "parseRequest") <= 1
        /\ Count(trace[c], "send") <= 1
        /\ Len(sent[c]) = Count(trace[c], "send")
        /\ closes[c] = Count(trace[c], "close")
        /\ hpc[c] = "done" =>
               /\ trace[c][Len(trace[c])] = "close"
               /\ ~ENABLED HRecv(c)
               /\ ~ENABLED HProcess(c)
               /\ ~ENABLED HSend(c)
               /\ ~ENABLED HClose(c)

\* a connection that went through every step, handler included, and is closed
C12_Witness ==
    \E c \in Sockets :
        /\ hpc[c] = "done"
        /\ Len(trace[c]) = 7
        /\ Len(sent[c]) = 1
        /\ closes[c] = 1

(***************************************************************************)
(* C13: once start() has been called no step changes the route table, and  *)
(* no step of a connection handler ever does: the table the handlers read  *)
(* is the one main had registered when it called start(), and the lookup   *)
(* of an unregistered path leaves its key out.                             *)
(***************************************************************************)
C13_RoutesReadOnlyAfterStart ==
    [][ (lpc # "created" \/ hpc' # hpc) => routes' = routes ]_vars

\* a found route, a missing route and a closed connection behind it, and the
\* table still holds the one path registered before start()
C13_Witness ==
    \E c1, c2 \in Sockets :
        /\ DOMAIN routes = {PathRoot}
        /\ hpc[c1] = "done" /\ request[c1].path = PathRoot /\ invoked[c1] # <<>>
        /\ hpc[c2] = "done" /\ request[c2].path \notin DOMAIN routes
        /\ Len(sent[c2]) = 1
        /\ StatusLineOf(sent[c2][1]) = StatusLine404

(***************************************************************************)
(* C14: after any sequence of addRoute calls the lookup of a path finds    *)
(* the handler of the last call made with exactly that path, and finds     *)
(* nothing when there was no such call; the table has one entry for each   *)
(* distinct path registered, and /about, /about/ and /About are three      *)
(* different keys.                                                         *)
(***************************************************************************)
\* the index in addLog of the last addRoute call for path, 0 when there is none
LastAdd(path) ==
    LET I == {i \in DOMAIN addLog : addLog[i][1] = path}
    IN  IF I = {} THEN 0 ELSE CHOOSE i \in I : \A j \in I : j <= i

\* what the lookup of req has to give after the calls in addLog
LookupAgrees(req, res) ==
    IF LastAdd(req.path) = 0
    THEN res.status_code = 404 /\ res.calls = <<>>
    ELSE /\ res.status_code = 200
         /\ Len(res.calls) = 1
         /\ res.calls[1].handler = addLog[LastAdd(req.path)][2]

C14_LastRegistrationWins ==
    /\ DOMAIN routes = {addLog[i][1] : i \in DOMAIN addLog}
    /\ \A path \in TablePaths \cup {<<"/","m","i","s","s","i","n","g">>} :
           LET req == [EmptyRequest EXCEPT !.path = path]
           IN  LookupAgrees(req, Route(routes, req))
    /\ lres # <<>> => \A i \in 1..2 : LookupAgrees(lreq[i], lres[i])

\* /about was registered twice: the lookup of /about gives
\* the second handler, the lookup of /about/ finds nothing
C14_Witness ==
    /\ Len(addLog) >= 2
    /\ addLog[1] = <<PathAbout, 1>>
    /\ addLog[2] = <<PathAbout, 2>>
    /\ lres # <<>>
    /\ lreq[1].path = PathAbout /\ lres[1].calls[1].handler = 2
    /\ lreq[2].path = PathAboutSlash /\ lres[2].status_code = 404

(***************************************************************************)
(* C20: two requests with the same path get the same status and the same   *)
(* handler, whatever their methods, versions, headers and bodies; the      *)
(* handler is called with the request's headers and nothing else, so two   *)
(* requests that agree on path and headers get the same content too.       *)
(***************************************************************************)
C20_RouteDependsOnPathOnly ==
    lres # <<>> =>
        /\ lreq[1].path = lreq[2].path =>
               /\ lres[1].status_code = lres[2].status_code
               /\ lres[1].status_msg = lres[2].status_msg
               /\ Len(lres[1].calls) = Len(lres[2].calls)
               /\ \A k \in 1..Len(lres[1].calls) :
                      lres[1].calls[k].handler = lres[2].calls[k].handler
        /\ \A i \in 1..2 : \A k \in 1..Len(lres[i].calls) :
               /\ lres[i].calls[k].headers = lreq[i].headers
               /\ DOMAIN lres[i].calls[k] = {"handler", "headers"}
               /\ lres[i].content = Apply(lres[i].calls[k].handler, lreq[i].headers)
        /\ (lreq[1].path = lreq[2].path /\ lreq[1].headers = lreq[2].headers) =>
               lres[1] = lres[2]

\* GET /about HTTP/1.1 with Host: y and no body, and POST /about HTTP/1.0
\* with a body: both are served with 200 by the handler that echoes Host
C20_Witness ==
    /\ lres # <<>>
    /\ lreq[1].path = PathAbout /\ lreq[2].path = PathAbout
    /\ lreq[1].method # lreq[2].method
    /\ lreq[1].version # lreq[2].version
    /\ lreq[1].body # lreq[2].body
    /\ lres[1].status_code = 200 /\ lres[2].status_code = 200
    /\ lres[1].content = <<"y">> /\ lres[2].content = <<"y">>

(***************************************************************************)
(* C15: a request written with a header section of "Key: Value" lines and  *)
(* lines without a colon, then the blank line, parses to a headers mapping *)
(* whose keys are the keys of the "Key: Value" lines and whose value for a *)
(* key is the value of the last line with that key, without the carriage   *)
(* return; N such lines with distinct keys give N entries; neither the     *)
(* blank line, nor a line without a colon, nor a line of the body is an    *)
(* entry.                                                                  *)
(***************************************************************************)
\* the indices of the "Key: Value" lines among plines
KVLines == {i \in DOMAIN plines : plines[i].kind = "kv"}

\* the last "Key: Value" line with key k
LastLine(k) ==
    LET I == {i \in KVLines : plines[i].key = k}
    IN  CHOOSE i \in I : \A j \in I : j <= i

C15_HeadersAreTheKeyValueLines ==
    ppc = "parsed" =>
        /\ ~pout.raised
        /\ DOMAIN pout.headers = {plines[i].key : i \in KVLines}
        /\ \A k \in DOMAIN pout.headers : pout.headers[k] = plines[LastLine(k)].value
        /\ (\A i, j \in KVLines : i # j => plines[i].key # plines[j].key) =>
               Cardinality(DOMAIN pout.headers) = Cardinality(KVLines)

\* "K: v", a line without a colon, "K: a: b", the blank line and a body that
\* reads "K: body": the one entry is K with the value a: b
C15_Witness ==
    /\ ppc = "parsed"
    /\ Len(plines) = 3
    /\ plines[1] = [kind |-> "kv", key |-> <<"K">>, value |-> <<"v">>]
    /\ plines[2].kind = "text"
    /\ plines[3] = [kind |-> "kv", key |-> <<"K">>, value |-> <<"a",":"," ","b">>]
    /\ pout.headers = MapPut(EmptyMap, <<"K">>, <<"a",":"," ","b">>)
    /\ pout.body # <<>>

(***************************************************************************)
(* C16: when the bytes read hold a blank terminator line (a line after the *)
(* request line that is a bare carriage return), the parsed body is the    *)
(* bytes read that follow that line, all of them.                          *)
(***************************************************************************)
\* the index of the line feed before the first line of s, after its first
\* line, that is a bare CR; 0 when there is none
TerminatorAt(s) ==
    LET K == {k \in 1..(Len(s) - 1) :
                 /\ s[k] = LF
                 /\ s[k + 1] = CR
                 /\ (k + 2 > Len(s) \/ s[k + 2] = LF)}
    IN  IF K = {} THEN 0 ELSE MinOf(K)

C16_BodyIsBytesAfterTerminator ==
    (ppc = "read" /\ ~pout.raised /\ TerminatorAt(pin) # 0) =>
        pout.body = SubSeq(pin, TerminatorAt(pin) + 3, Len(pin))

(***************************************************************************)
(* C17: a stop() made before start() has set running finds the flag clear  *)
(* and changes nothing that lasts: start() still sets the flag, the loop   *)
(* is entered with the flag set and goes on to accept, and the flag stays  *)
(* set until a stop() made while the loop is active; start() returns only  *)
(* after such a later stop() or a failed setup.                            *)
(***************************************************************************)
C17_EarlyStopHasNoLastingEffect ==
    /\ BeforeRunning => ~running
    /\ earlyStop # "none" =>
           /\ (~crashed /\ lpc = "run") => ENABLED SetRunning
           /\ (Listening /\ ~stopSeen) => running
           /\ (~crashed /\ lpc = "loop" /\ ~stopSeen) =>
                  ENABLED (LoopCheck /\ lpc' = "accept")
           /\ lpc = "returned" => (stopSeen \/ reported \cap SetupFailures # {})

\* stop() was called during the setup, after listen(); the loop runs with the
\* flag set and has accepted a connection, which is being served
C17_Witness ==
    /\ earlyStop = "run"
    /\ ~stopSeen
    /\ running
    /\ lpc = "accept"
    /\ \E c \in Sockets : hpc[c] = "send"

(***************************************************************************)
(* C18: closeSocket(server_fd) is called at most once, and not before      *)
(* start() returns; when start() has returned and the socket had been      *)
(* created, it has been closed exactly once; when socket() itself failed   *)
(* there is no socket and no close.                                        *)
(***************************************************************************)
C18_ListeningSocketClosedOnce ==
    /\ server_fd_closes <= 1
    /\ lpc # "returned" => (server_fd_closes = 0 /\ server_fd # "closed")
    /\ (lpc = "returned" /\ "Socket creation failed" \notin reported) =>
           (server_fd = "closed" /\ server_fd_closes = 1)
    /\ (lpc = "returned" /\ "Socket creation failed" \in reported) =>
           (server_fd = "none" /\ server_fd_closes = 0)

\* listen() failed after socket() and bind() went well
C18_Witness ==
    /\ lpc = "returned"
    /\ "Listen failed" \in reported
    /\ server_fd = "closed"
    /\ server_fd_closes = 1

=============================================================================
